---- MODULE Spec2Model ----
(***************************************************************************)
(* Model of src/server.ts: the image and certificate upload handlers, the  *)
(* two listing handlers and the two delete handlers, over the two storage  *)
(* directories uploadsDir and certificatesDir.                             *)
(*                                                                         *)
(* A handler runs to its next await as one step.  The awaits are           *)
(* request.file(), the for-await loop over request.parts() and pump(...);  *)
(* the listing and delete handlers are synchronous and are one step each.  *)
(*                                                                         *)
(* Error bodies are modelled by a tag for the "error" string of the reply: *)
(*   "MissingFile"      400  "Arquivo nao encontrado" / "Certificado nao   *)
(*                           encontrado" (upload handlers)                 *)
(*   "InvalidType"      400  "Tipo de arquivo invalido"                    *)
(*   "MissingPassword"  400  "Senha obrigatoria"                           *)
(*   "TooLarge"         400  "Arquivo muito grande"                        *)
(*   "NotFound"         404  delete handlers                               *)
(*   "InvalidFile"      400  "Arquivo invalido" (certificate delete)       *)
(*   "Internal"         500  "Erro interno do servidor"                    *)
(***************************************************************************)
EXTENDS Integers, FiniteSets, Sequences, TLC

\* ------------------------------------------------------------------ bounds
\* number of ingest requests (POST /upload, POST /upload-certificate) of a run
MaxUploads == 2

\* bytes of an unconsumed file part that the multipart parser and the stream
\* buffers hold before the parser stops reading the request body
HighWaterMark == 16384

\* the milliseconds the clock of the server advances over a run
MaxClock == 1

\* ------------------------------------------------------- program constants
\* limits.fileSize of the multipart plugin, and maxSize of the certificate handler
MaxFileSize == 5 * 1024 * 1024

Uploads == 1..MaxUploads

Categories == {"image", "certificate"}

\* the extensions of the declared filenames a client sends to POST /upload
\* and to POST /upload-certificate
ImageNames == {".png", ".txt"}
CertificateNames == {".PFX", ".txt"}

\* the declared MIME types a client sends
MimeTypes == {"image/png", "text/plain"}

\* the password field of a certificate request: absent, empty or set
NoField == "<absent>"
Passwords == {NoField, "", "secret"}

\* transferred file sizes: an empty file, one that fits the stream buffers,
\* one that needs more than one chunk, one over the limit
FileSizes == {0, 1, HighWaterMark + 1, MaxFileSize + 1}

\* ------------------------------------------------------------ pure helpers
\* String.prototype.toLowerCase on an extension
toLowerCase(ext) == IF ext = ".PFX" THEN ".pfx" ELSE IF ext = ".PNG" THEN ".png" ELSE ext

\* allowedTypes of POST /upload
allowedTypes == {"image/jpeg", "image/jpg", "image/png", "image/gif"}

\* the extension filter of GET /images
imageExtensions == {".jpg", ".jpeg", ".png", ".gif"}

\* allowedExtensions of POST /upload-certificate, and the filter of
\* GET /certificates and DELETE /certificates/:filename
allowedExtensions == {".pfx", ".p12"}

\* a stored name: `${uuidv4()}${ext}` or `cert_${uuidv4()}${ext}`
NoName == [prefix |-> "", id |-> 0, ext |-> ""]
StoredName(prefix, id, ext) == [prefix |-> prefix, id |-> id, ext |-> ext]

\* path.extname of a stored name or of a filename parameter
extname(name) == name.ext

\* certificateFile.filename: the name the client declares, a base name that is
\* no generated uuid, followed by the declared extension
declaredFilename(req) == [prefix |-> "", id |-> 0, ext |-> req.ext]

\* filename.replace(/^cert_[a-f0-9-]+_/, ""): the pattern needs a "_" behind
\* the hexadecimal digits and dashes that follow "cert_"; in a name
\* prefix + uuid + ext the uuid is followed by the extension, which begins
\* with ".", so nothing matches and nothing is removed
removeUuidPrefix(name) ==
    IF name.prefix = "cert_" /\ name.ext # "" /\ SubSeq(name.ext, 1, 1) = "_"
    THEN [prefix |-> "", id |-> 0, ext |-> SubSeq(name.ext, 2, Len(name.ext))]
    ELSE name

\* (1000 * 60 * 60 * 24) of GET /certificates: the milliseconds of a day
Day == 1000 * 60 * 60 * 24

\* A time in milliseconds is held as days * Day + ms with 0 <= ms < Day (the
\* millisecond counts of a year exceed the integers of the model checker).
Time(days, ms) == [days |-> days, ms |-> ms]

\* the expirationDate of a reply that carries none
NoTime == Time(0, 0)

\* ------------------------------------------------------------------- state
VARIABLES
    pc,              \* where each ingest handler is: idle, parts, pump, done
    request,         \* the multipart request of each ingest
    uniqueFilename,  \* the name generated for each ingest (NoName: none yet)
    pumped,          \* bytes pump() has moved from data.file to the write stream
    streamError,     \* the error the file stream of an ingest ended with
    response,        \* the reply of each ingest handler
    uploadsDir,      \* the files of uploadsDir: stored name -> bytes on disk
    certificatesDir, \* the files of certificatesDir: stored name -> bytes on disk
    reply,           \* the reply of the listing or delete handler that ran last
    classifier,      \* one evaluation of the status computation of GET /certificates
    clock            \* Date.now(): the milliseconds since the server started

vars == <<pc, request, uniqueFilename, pumped, streamError, response,
          uploadsDir, certificatesDir, reply, classifier, clock>>

NoRequest == [category |-> "", file |-> FALSE, ext |-> "", mimetype |-> "",
              password |-> NoField, size |-> 0]
NoResponse == [code |-> 0, error |-> "", size |-> 0,
               originalName |-> NoName, expirationDate |-> NoTime]
NoReply == [op |-> "", category |-> "", up |-> FALSE, filename |-> NoName,
            code |-> 0, error |-> "", entries |-> {}]

\* the multipart bodies a client sends to POST /upload
ImageRequests ==
    {[category |-> "image", file |-> FALSE, ext |-> "", mimetype |-> "",
      password |-> NoField, size |-> 0]}
    \cup {[category |-> "image", file |-> TRUE, ext |-> e, mimetype |-> m,
           password |-> NoField, size |-> s] :
             e \in ImageNames, m \in MimeTypes, s \in FileSizes}

\* the multipart bodies a client sends to POST /upload-certificate
CertificateRequests ==
    {[category |-> "certificate", file |-> FALSE, ext |-> "", mimetype |-> "",
      password |-> p, size |-> 0] : p \in Passwords}
    \cup {[category |-> "certificate", file |-> TRUE, ext |-> e,
           mimetype |-> "application/x-pkcs12", password |-> p, size |-> s] :
             e \in CertificateNames, p \in Passwords, s \in FileSizes}

\* the state after buildServer(): both directories exist, no request has come
InitServer ==
    /\ pc = [u \in Uploads |-> "idle"]
    /\ request = [u \in Uploads |-> NoRequest]
    /\ uniqueFilename = [u \in Uploads |-> NoName]
    /\ pumped = [u \in Uploads |-> 0]
    /\ streamError = [u \in Uploads |-> "none"]
    /\ response = [u \in Uploads |-> NoResponse]
    /\ uploadsDir = [n \in {} |-> 0]
    /\ certificatesDir = [n \in {} |-> 0]
    /\ reply = NoReply
    /\ clock = 0

\* ---------------------------------------------------------------- storage
\* the directory of a category
Dir(category) == IF category = "image" THEN uploadsDir ELSE certificatesDir

\* the directory of a category is replaced, the other one is left alone
SetDir(category, files) ==
    IF category = "image"
    THEN uploadsDir' = files /\ UNCHANGED certificatesDir
    ELSE certificatesDir' = files /\ UNCHANGED uploadsDir

\* fs.existsSync
existsSync(dir, name) == name \in DOMAIN dir

\* fs.createWriteStream opens (creates or truncates) the file
createWriteStream(dir, name) == [n \in DOMAIN dir \cup {name} |-> IF n = name THEN 0 ELSE dir[n]]

\* fs.unlinkSync
unlinkSync(dir, name) == [n \in DOMAIN dir \ {name} |-> dir[n]]

\* a write of the open stream: the bytes reach the file while it is still
\* linked under its name, and an unlinked file of the write stream otherwise
writeBytes(dir, name, total) ==
    IF name \in DOMAIN dir THEN [dir EXCEPT ![name] = total] ELSE dir

\* uuidv4(): a random 122-bit value, taken to differ from every value drawn
\* before (the collision probability is treated as zero).  Names are only
\* compared for equality, so the fresh value is the least one not yet drawn.
Uuids == 1..MaxUploads
unusedUuids == {id \in Uuids : \A u \in Uploads : uniqueFilename[u].id # id}
uuidv4 == {id \in unusedUuids : \A other \in unusedUuids : id <= other}

\* ------------------------------------------------------ the ingest handlers
\* the checks of POST /upload, in the order of the handler
imageCheck(req) ==
    IF ~req.file THEN "MissingFile"
    ELSE IF req.mimetype \notin allowedTypes THEN "InvalidType"
    ELSE "ok"

\* certificateFile.file.readableLength: the bytes the unread file stream buffers
readableLength(req) == IF req.size <= HighWaterMark THEN req.size ELSE HighWaterMark

\* the password the for-await loop leaves: "" unless a password field came
passwordOf(req) == IF req.password = NoField THEN "" ELSE req.password

\* the checks of POST /upload-certificate with the extension check moved
\* before the password check
certificateCheckTypeFirst(req) ==
    IF ~req.file THEN "MissingFile"
    ELSE IF toLowerCase(req.ext) \notin allowedExtensions THEN "InvalidType"
    ELSE IF passwordOf(req) = "" THEN "MissingPassword"
    ELSE IF readableLength(req) > MaxFileSize THEN "TooLarge"
    ELSE "ok"

\* the checks of POST /upload-certificate, in the order of the handler
certificateCheck(req) ==
    IF ~req.file THEN "MissingFile"
    ELSE IF passwordOf(req) = "" THEN "MissingPassword"
    ELSE IF toLowerCase(req.ext) \notin allowedExtensions THEN "InvalidType"
    ELSE IF readableLength(req) > MaxFileSize THEN "TooLarge"
    ELSE "ok"

\* the name an ingest stores its file under
imageFilename(id, req) == StoredName("", id, req.ext)
certificateFilename(id, req) == StoredName("cert_", id, toLowerCase(req.ext))

\* reply.code(400).send({error, message}) of an ingest handler
Reject(u, error) ==
    /\ pc' = [pc EXCEPT ![u] = "done"]
    /\ response' = [response EXCEPT ![u] = [NoResponse EXCEPT !.code = 400, !.error = error]]
    /\ UNCHANGED <<uniqueFilename, pumped, streamError, uploadsDir, certificatesDir>>

\* the name is generated and pump(file, fs.createWriteStream(filePath)) starts
StartPump(u, category, name) ==
    /\ uniqueFilename' = [uniqueFilename EXCEPT ![u] = name]
    /\ SetDir(category, createWriteStream(Dir(category), name))
    /\ pc' = [pc EXCEPT ![u] = "pump"]
    /\ UNCHANGED <<pumped, streamError, response>>

\* the requests are numbered in the order they arrive in
arrives(u) == pc[u] = "idle" /\ \A v \in Uploads : v < u => pc[v] # "idle"

\* POST /upload, up to its await of pump
Upload(u) ==
    /\ arrives(u)
    /\ \E req \in ImageRequests :
        /\ request' = [request EXCEPT ![u] = req]
        /\ IF imageCheck(req) # "ok"
           THEN Reject(u, imageCheck(req))
           ELSE \E id \in uuidv4 : StartPump(u, "image", imageFilename(id, req))
    /\ reply' = NoReply
    /\ UNCHANGED <<classifier, clock>>

\* POST /upload-certificate: request.parts() and the start of the for-await loop
UploadCertificate(u) ==
    /\ arrives(u)
    /\ \E req \in CertificateRequests : request' = [request EXCEPT ![u] = req]
    /\ pc' = [pc EXCEPT ![u] = "parts"]
    /\ reply' = NoReply
    /\ UNCHANGED <<uniqueFilename, pumped, streamError, response, uploadsDir, certificatesDir>>
    /\ UNCHANGED <<classifier, clock>>

\* the parser delivers the end of the parts only when it has read the whole
\* body: the loop does not read the file stream, so a file part that the
\* buffers cannot hold stops the parser
partsEnd(req) == ~req.file \/ req.size <= HighWaterMark

\* POST /upload-certificate, from the end of the for-await loop to its await of pump
CertificateParts(u) ==
    /\ pc[u] = "parts"
    /\ partsEnd(request[u])
    /\ IF certificateCheck(request[u]) # "ok"
       THEN Reject(u, certificateCheck(request[u]))
       ELSE \E id \in uuidv4 : StartPump(u, "certificate", certificateFilename(id, request[u]))
    /\ reply' = NoReply
    /\ UNCHANGED request
    /\ UNCHANGED <<classifier, clock>>

\* the bytes the file stream delivers: busboy cuts the file at limits.fileSize
delivered(req) == IF req.size > MaxFileSize THEN MaxFileSize ELSE req.size

\* the totals a chunk can end at
ChunkEnds == FileSizes \cup {MaxFileSize}

\* pump moves one chunk from the file stream to the write stream
PumpChunk(u) ==
    /\ pc[u] = "pump"
    /\ \E total \in ChunkEnds :
        /\ pumped[u] < total
        /\ total <= delivered(request[u])
        /\ pumped' = [pumped EXCEPT ![u] = total]
        /\ SetDir(request[u].category,
                  writeBytes(Dir(request[u].category), uniqueFilename[u], total))
    /\ reply' = NoReply
    /\ UNCHANGED <<pc, request, uniqueFilename, streamError, response>>
    /\ UNCHANGED <<classifier, clock>>

\* the errors the file stream can end with: the client aborts or the disk
\* fails at any time; at the size limit the plugin either destroys the stream
\* with RequestFileTooLargeError or only marks it truncated (then the stream
\* ends normally), depending on its version
streamErrors(u) ==
    {"aborted"} \cup
    (IF request[u].size > MaxFileSize /\ pumped[u] = MaxFileSize THEN {"limit"} ELSE {})

\* pump rejects: the catch block replies 500 (the file is not removed)
PumpReject(u) ==
    /\ pc[u] = "pump"
    /\ \E e \in streamErrors(u) : streamError' = [streamError EXCEPT ![u] = e]
    /\ pc' = [pc EXCEPT ![u] = "done"]
    /\ response' = [response EXCEPT ![u] =
                      [NoResponse EXCEPT !.code = 500, !.error = "Internal"]]
    /\ reply' = NoReply
    /\ UNCHANGED <<request, uniqueFilename, pumped, uploadsDir, certificatesDir>>
    /\ UNCHANGED <<classifier, clock>>

\* the reply after pump resolved, with a size check added after the transfer
\* that answers 400 and leaves the file
statReplySizeChecked(dir, name) ==
    IF ~existsSync(dir, name)
    THEN [NoResponse EXCEPT !.code = 500, !.error = "Internal"]
    ELSE IF dir[name] >= MaxFileSize
    THEN [NoResponse EXCEPT !.code = 400, !.error = "TooLarge"]
    ELSE [NoResponse EXCEPT !.code = 200, !.size = dir[name]]

\* the reply after pump resolved: fs.statSync(filePath) throws when the file
\* is gone (500 from the catch block), else 200 with stats.size
statReply(dir, name) ==
    IF ~existsSync(dir, name)
    THEN [NoResponse EXCEPT !.code = 500, !.error = "Internal"]
    ELSE [NoResponse EXCEPT !.code = 200, !.size = dir[name]]

\* Date.now() as a time
Now == Time(0, clock)

\* new Date(Date.now() + 365 * 24 * 60 * 60 * 1000)
mockExpirationDate == Time(Now.days + 365, Now.ms)

\* the 200 reply of an ingest: originalName is the declared filename, and a
\* certificate gets mockCertInfo.expirationDate, computed when pump resolved
uploadResponse(req, stat) ==
    IF stat.code # 200 THEN stat
    ELSE [stat EXCEPT
            !.originalName = declaredFilename(req),
            !.expirationDate = IF req.category = "certificate"
                               THEN mockExpirationDate ELSE NoTime]

\* pump resolves, and the handler runs to its reply
PumpResolve(u) ==
    /\ pc[u] = "pump"
    /\ pumped[u] = delivered(request[u])
    /\ pc' = [pc EXCEPT ![u] = "done"]
    /\ response' = [response EXCEPT ![u] =
                      uploadResponse(request[u],
                                     statReply(Dir(request[u].category), uniqueFilename[u]))]
    /\ reply' = NoReply
    /\ UNCHANGED <<request, uniqueFilename, pumped, streamError, uploadsDir, certificatesDir>>
    /\ UNCHANGED <<classifier, clock>>

\* ------------------------------------------------------------ the listings
\* the files of a directory that pass the extension filter of a listing
filterFiles(dir, extensions) ==
    {n \in DOMAIN dir : toLowerCase(extname(n)) \in extensions}

\* a.getTime() - b.getTime()
timeDiff(a, b) ==
    IF a.ms >= b.ms THEN Time(a.days - b.days, a.ms - b.ms)
    ELSE Time(a.days - b.days - 1, a.ms - b.ms + Day)

\* Math.ceil(diff / Day)
ceilDays(diff) == IF diff.ms = 0 THEN diff.days ELSE diff.days + 1

\* daysUntilExpiration of GET /certificates
daysUntilExpiration(expiration, now) == ceilDays(timeDiff(expiration, now))

\* the status with the 30-day bound taken as exclusive
certificateStatusExclusive(expiration, now) ==
    IF daysUntilExpiration(expiration, now) < 0 THEN "expired"
    ELSE IF daysUntilExpiration(expiration, now) < 30 THEN "expiring_soon"
    ELSE "active"

\* status of GET /certificates
certificateStatus(expiration, now) ==
    IF daysUntilExpiration(expiration, now) < 0 THEN "expired"
    ELSE IF daysUntilExpiration(expiration, now) <= 30 THEN "expiring_soon"
    ELSE "active"

\* milliseconds between the two clock reads of one GET /certificates entry
MaxSkew == 1

\* GET /images
ListImages ==
    /\ reply' = [NoReply EXCEPT
                   !.op = "list", !.category = "image", !.code = 200,
                   !.entries = {[filename |-> n, size |-> uploadsDir[n], status |-> ""] :
                                  n \in filterFiles(uploadsDir, imageExtensions)}]
    /\ UNCHANGED <<pc, request, uniqueFilename, pumped, streamError, response,
                   uploadsDir, certificatesDir>>
    /\ UNCHANGED <<classifier, clock>>

\* GET /certificates
ListCertificates ==
    /\ \E skew \in 0..MaxSkew :
         reply' = [NoReply EXCEPT
                     !.op = "list", !.category = "certificate", !.code = 200,
                     !.entries = {[filename |-> n,
                                   originalName |-> removeUuidPrefix(n),
                                   size |-> certificatesDir[n],
                                   expirationDate |-> mockExpirationDate,
                                   status |-> certificateStatus(mockExpirationDate,
                                                                Time(0, clock + skew))] :
                                    n \in filterFiles(certificatesDir, allowedExtensions)}]
    /\ UNCHANGED <<pc, request, uniqueFilename, pumped, streamError, response,
                   uploadsDir, certificatesDir>>
    /\ UNCHANGED <<classifier, clock>>

\* -------------------------------------------------------------- the deletes
\* the :filename parameters a client sends: the names the ingests generated
\* (up: the name is sent behind "../<the other directory>/")
FilenameParams ==
    {[up |-> up, name |-> uniqueFilename[u]] :
        up \in BOOLEAN, u \in {v \in Uploads : uniqueFilename[v] # NoName}}

\* the directory path.join(dir, filename) points into
joinDir(category, param) ==
    IF ~param.up THEN category
    ELSE IF category = "image" THEN "certificate" ELSE "image"

\* the outcome of DELETE /images/:filename
deleteImageCheck(param) ==
    IF ~existsSync(Dir(joinDir("image", param)), param.name) THEN "NotFound"
    ELSE "ok"

\* the outcome of DELETE /certificates/:filename
deleteCertificateCheck(param) ==
    IF ~existsSync(Dir(joinDir("certificate", param)), param.name) THEN "NotFound"
    ELSE IF toLowerCase(extname(param.name)) \notin allowedExtensions THEN "InvalidFile"
    ELSE "ok"

errorCode(error) == IF error = "ok" THEN 200 ELSE IF error = "NotFound" THEN 404 ELSE 400

\* a delete handler, given the outcome of its checks
Delete(category, param, outcome) ==
    /\ reply' = [NoReply EXCEPT
                   !.op = "delete", !.category = category, !.up = param.up,
                   !.filename = param.name, !.code = errorCode(outcome),
                   !.error = IF outcome = "ok" THEN "" ELSE outcome]
    /\ IF outcome = "ok"
       THEN SetDir(joinDir(category, param),
                   unlinkSync(Dir(joinDir(category, param)), param.name))
       ELSE UNCHANGED <<uploadsDir, certificatesDir>>
    /\ UNCHANGED <<pc, request, uniqueFilename, pumped, streamError, response>>
    /\ UNCHANGED <<classifier, clock>>

\* DELETE /images/:filename
DeleteImage == \E param \in FilenameParams : Delete("image", param, deleteImageCheck(param))

\* DELETE /certificates/:filename
DeleteCertificate ==
    \E param \in FilenameParams : Delete("certificate", param, deleteCertificateCheck(param))

\* ---------------------------------------------------------------- the clock
\* a millisecond passes between two steps of the handlers
Tick ==
    /\ clock < MaxClock
    /\ clock' = clock + 1
    /\ reply' = NoReply
    /\ UNCHANGED <<pc, request, uniqueFilename, pumped, streamError, response,
                   uploadsDir, certificatesDir, classifier>>

\* ----------------------------------------------------------- specification
NoClassification == [expirationDate |-> Time(0, 0), now |-> Time(0, 0), status |-> ""]

Init == InitServer /\ classifier = NoClassification

Next ==
    \/ \E u \in Uploads : Upload(u)
    \/ \E u \in Uploads : UploadCertificate(u)
    \/ \E u \in Uploads : CertificateParts(u)
    \/ \E u \in Uploads : PumpChunk(u)
    \/ \E u \in Uploads : PumpReject(u)
    \/ \E u \in Uploads : PumpResolve(u)
    \/ ListImages
    \/ ListCertificates
    \/ DeleteImage
    \/ DeleteCertificate
    \/ Tick

Spec == Init /\ [][Next]_vars

\* The event loop runs every continuation that is ready: a handler whose
\* await has resolved goes on, and a stream that has data and a consumer
\* keeps flowing.
SpecFair ==
    /\ Spec
    /\ \A u \in Uploads :
        /\ WF_vars(CertificateParts(u))
        /\ WF_vars(PumpChunk(u))
        /\ WF_vars(PumpResolve(u))

\* ------------------------------------------- the status computation alone
\* the largest day of an expiration date the status computation is given
MaxDay == 33

\* the milliseconds within a day the inputs are drawn at
DayMillis == {0, 1, Day - 1}

ExpirationDates == {Time(d, ms) : d \in -2..MaxDay, ms \in DayMillis}
Nows == {Time(d, ms) : d \in 0..1, ms \in DayMillis}

InitClassifier ==
    /\ InitServer
    /\ classifier \in {[expirationDate |-> e, now |-> n, status |-> ""] :
                         e \in ExpirationDates, n \in Nows}

\* lines 643-653 of GET /certificates, for one expiration date and one now
Classify ==
    /\ classifier.status = ""
    /\ classifier' = [classifier EXCEPT
                        !.status = certificateStatus(classifier.expirationDate, classifier.now)]
    /\ UNCHANGED <<pc, request, uniqueFilename, pumped, streamError, response,
                   uploadsDir, certificatesDir, reply, clock>>

NextClassifier == Classify

SpecClassifier == InitClassifier /\ [][NextClassifier]_vars

\* ================================================================= claims
\* the extension whitelist the specification gives a category
Whitelist(category) == IF category = "image" THEN imageExtensions ELSE allowedExtensions

\* the file of an ingest is in the directory of its category
Stored(u) == existsSync(Dir(request[u].category), uniqueFilename[u])

\* the names of the listing that ran last
ListedNames == {e.filename : e \in reply.entries}

\* pump has moved every transferred byte of the ingest and has resolved
FullyWritten(u) ==
    pc[u] = "done" /\ streamError[u] = "none" /\ pumped[u] = request[u].size

\* C1: a listing never returns an entry whose bytes are not fully written: an
\* upload that is still streaming, or whose stream failed, is absent from the
\* listing of its category.
C1_ListingShowsOnlyFullyWritten ==
    reply.op = "list" =>
        \A e \in reply.entries :
            \E u \in Uploads : uniqueFilename[u] = e.filename /\ FullyWritten(u)

\* C2: when the byte stream of an ingest fails or is aborted after the write
\* has started, then once the ingest has returned storage holds no file under
\* the name generated for it, and no listing returns that name.
C2_FailedStreamLeavesNoFile ==
    \A u \in Uploads :
        (pc[u] = "done" /\ streamError[u] # "none" /\ pumped[u] > 0) =>
            /\ ~Stored(u)
            /\ reply.op = "list" => uniqueFilename[u] \notin ListedNames

\* C3: an ingest (that passes the other checks and is not aborted) whose
\* transferred file is larger than 5,242,880 bytes fails with TooLarge, a 400,
\* and leaves no file on storage.
C3_TooLargeRejectedAndRemoved ==
    \A u \in Uploads :
        (/\ pc[u] = "done"
         /\ request[u].file
         /\ request[u].size > MaxFileSize
         /\ streamError[u] # "aborted"
         /\ response[u].error \notin {"MissingFile", "MissingPassword", "InvalidType"}) =>
            /\ response[u].code = 400
            /\ response[u].error = "TooLarge"
            /\ ~Stored(u)

\* the declared type of the file of an ingest is outside what its category allows
OutsideWhitelist(req) ==
    \/ toLowerCase(req.ext) \notin Whitelist(req.category)
    \/ req.category = "image" /\ req.mimetype \notin allowedTypes

\* C4: an ingest whose declared extension is outside the whitelist of its
\* category, or, for an image, whose declared MIME type is outside the MIME
\* whitelist, fails with InvalidType (for a request that carries its file and,
\* for a certificate, its password, and whose stream does not fail).
C4_OutsideWhitelistIsInvalidType ==
    \A u \in Uploads :
        (/\ pc[u] = "done"
         /\ request[u].file
         /\ request[u].category = "certificate" => passwordOf(request[u]) # ""
         /\ streamError[u] = "none"
         /\ OutsideWhitelist(request[u])) =>
            response[u].code = 400 /\ response[u].error = "InvalidType"

\* C5: an image ingest with a whitelisted extension and MIME type and at most
\* 5 MB, whose stream does not fail, replies 200 with the transferred size,
\* whatever runs concurrently.
C5_ValidImageSucceeds ==
    \A u \in Uploads :
        (/\ pc[u] = "done"
         /\ request[u].category = "image"
         /\ request[u].file
         /\ ~OutsideWhitelist(request[u])
         /\ request[u].size <= MaxFileSize
         /\ streamError[u] = "none") =>
            response[u].code = 200 /\ response[u].size = request[u].size

\* the ingest replied 200
Succeeded(u) == pc[u] = "done" /\ response[u].code = 200

\* C6: round trip: a listing contains the stored name of every artifact a
\* successful ingest of its category stored (and that is still stored), a
\* delete of such a name is not refused, a listing returns only stored names,
\* and a delete answers not-found only for a name that is not stored.
C6_RoundTrip ==
    /\ reply.op = "list" =>
          /\ \A u \in Uploads :
                (Succeeded(u) /\ request[u].category = reply.category /\ Stored(u))
                    => uniqueFilename[u] \in ListedNames
          /\ ListedNames \subseteq DOMAIN Dir(reply.category)
    /\ reply.op = "delete" =>
          /\ ~existsSync(Dir(reply.category), reply.filename)
          /\ (\E u \in Uploads : /\ Succeeded(u)
                                 /\ request[u].category = reply.category
                                 /\ uniqueFilename[u] = reply.filename)
                => reply.code \in {200, 404}

\* C7: a delete whose name has an extension outside the whitelist of the
\* category of its endpoint removes nothing: it answers with the
\* invalid-category error (or not-found when there is no such file), never 200.
C7_DeleteOutsideWhitelistRefused ==
    (/\ reply.op = "delete"
     /\ toLowerCase(extname(reply.filename)) \notin Whitelist(reply.category)) =>
        reply.code # 200 /\ reply.error \in {"InvalidFile", "NotFound"}

Before(a, b) == a.days < b.days \/ (a.days = b.days /\ a.ms < b.ms)

\* t plus d days
AddDays(t, d) == Time(t.days + d, t.ms)

\* d = ceil((expirationDate - now) / 1 day): now + (d-1) days < expirationDate <= now + d days
IsDaysRemaining(d, expirationDate, now) ==
    /\ Before(AddDays(now, d - 1), expirationDate)
    /\ ~Before(AddDays(now, d), expirationDate)

\* C9: with daysRemaining = ceil((expirationDate - now) / 1 day) the status is
\* expired exactly when daysRemaining < 0, expiring_soon exactly when
\* 0 <= daysRemaining <= 30 and active exactly when daysRemaining > 30; 31
\* days out is active, 30 days out and now are expiring_soon, one day in the
\* past is expired.
C9_Classification ==
    classifier.status # "" =>
        /\ \A d \in -(MaxDay + 4)..(MaxDay + 4) :
              IsDaysRemaining(d, classifier.expirationDate, classifier.now) =>
                  /\ classifier.status = "expired" <=> d < 0
                  /\ classifier.status = "expiring_soon" <=> (0 <= d /\ d <= 30)
                  /\ classifier.status = "active" <=> d > 30
        /\ \E d \in -(MaxDay + 4)..(MaxDay + 4) :
              IsDaysRemaining(d, classifier.expirationDate, classifier.now)
        /\ classifier.expirationDate = AddDays(classifier.now, 31) => classifier.status = "active"
        /\ classifier.expirationDate = AddDays(classifier.now, 30) => classifier.status = "expiring_soon"
        /\ classifier.expirationDate = classifier.now => classifier.status = "expiring_soon"
        /\ classifier.expirationDate = AddDays(classifier.now, -1) => classifier.status = "expired"

\* C9 happens: an expiration date exactly 30 days out was classified
C9_Witness ==
    /\ classifier.status = "expiring_soon"
    /\ classifier.now = Time(1, 1)
    /\ classifier.expirationDate = AddDays(classifier.now, 30)

\* the validation errors of the ingest handlers
ValidationErrors == {"MissingFile", "InvalidType", "TooLarge", "MissingPassword"}

\* C11: an ingest that ends with a validation error (MissingFile, InvalidType,
\* TooLarge, MissingPassword) was answered 400 before it generated a name,
\* opened a file or wrote a byte: nothing in storage comes from it.
C11_ValidationErrorBeforeAnyWrite ==
    \A u \in Uploads :
        (pc[u] = "done" /\ (response[u].error \in ValidationErrors \/ response[u].code = 400)) =>
            /\ response[u].code = 400
            /\ response[u].error \in ValidationErrors
            /\ uniqueFilename[u] = NoName
            /\ pumped[u] = 0
            /\ uniqueFilename[u] \notin DOMAIN uploadsDir \cup DOMAIN certificatesDir

\* C11 happens: an image ingest was answered InvalidType while the file of
\* another ingest is in storage
C11_Witness ==
    \E u \in Uploads :
        /\ pc[u] = "done"
        /\ request[u].category = "image"
        /\ response[u].error = "InvalidType"
        /\ DOMAIN uploadsDir # {}

\* C12: an ingest whose transferred file has size 0 is rejected with a
\* validation error and stores nothing; every artifact in storage after a
\* successful ingest has 0 < sizeBytes <= 5,242,880.
C12_SizeWithinBounds ==
    \A u \in Uploads :
        /\ (pc[u] = "done" /\ request[u].file /\ request[u].size = 0
              /\ streamError[u] = "none") =>
                /\ response[u].code = 400
                /\ response[u].error \in ValidationErrors
                /\ ~Stored(u)
        /\ (Succeeded(u) /\ Stored(u)) =>
                /\ 0 < Dir(request[u].category)[uniqueFilename[u]]
                /\ Dir(request[u].category)[uniqueFilename[u]] <= MaxFileSize

\* C13: for every certificate ingest that succeeded, every later listing of
\* the certificates that returns its file reports the originalName and the
\* expirationDate the ingest response reported.
C13_ListingAgreesWithIngest ==
    (reply.op = "list" /\ reply.category = "certificate") =>
        \A u \in Uploads : \A e \in reply.entries :
            (/\ Succeeded(u)
             /\ request[u].category = "certificate"
             /\ e.filename = uniqueFilename[u]) =>
                /\ e.originalName = response[u].originalName
                /\ e.expirationDate = response[u].expirationDate

\* a step of an operation of the endpoints of a category: a listing or a
\* delete of the category replied, or an ingest of the category moved
EndpointStep(category) ==
    \/ reply'.op # "" /\ reply'.category = category
    \/ \E u \in Uploads :
        /\ request'[u].category = category
        /\ pc'[u] # pc[u] \/ pumped'[u] # pumped[u]

\* C14: the two namespaces are disjoint, also for filename parameters that
\* contain path separators or "..": no operation of the image endpoints
\* changes the stored certificates, and no operation of the certificate
\* endpoints changes the stored images.
C14_NamespacesDisjoint ==
    [][/\ EndpointStep("image") => certificatesDir' = certificatesDir
       /\ EndpointStep("certificate") => uploadsDir' = uploadsDir]_vars

\* C15: every certificate ingest whose body is complete and well formed (a
\* file of at most 5 MB and a password field) eventually produces a response:
\* the handler does not wait forever in the loop over the parts.
C15_CertificateIngestResponds ==
    \A u \in Uploads :
        (/\ pc[u] = "parts"
         /\ request[u].file
         /\ request[u].password # NoField
         /\ request[u].size <= MaxFileSize) ~> (pc[u] = "done")

====
